---- MODULE Spec2Model ----
(***************************************************************************)
(* Model of the offchain-sdk HTTP server wrapper (package server) and of   *)
(* the worker pool configuration (package worker).                         *)
(*                                                                         *)
(* Server: one Server value, its route registry (mux), its middleware      *)
(* slice, the srv field, the sync.Once closer, the Start invocations with  *)
(* the accept goroutine each one launches, and the Stop invocations.       *)
(* A panic is modelled as the way the panicking call ends ("panic"); what  *)
(* the caller does with it is outside the package.                         *)
(***************************************************************************)
EXTENDS Integers, Sequences, FiniteSets, TLC

\* ---------------------------------------------------------------- bounds
NumStarts == 2
NumStops == 2
MaxMiddlewares == 2
MaxCfgs == 2

\* The Start invocations, in the order they are made. Start is invoked again
\* only after the previous invocation has returned.
Starts == 1..NumStarts
ExtStops == 1..NumStops
MwIds == {"a", "b"}
Paths == {"/x", "/y"}
HandlerIds == {"h1", "h2"}

\* the nil *http.Server; a non-nil handle is named by the Start that made it
Nil == 0
NoHandler == "none"
NoCaller == <<"none", 0>>

\* every call site of Stop: external callers and Start's own call (line 84)
StopCallers == {<<"ext", k>> : k \in ExtStops} \cup {<<"start", s>> : s \in Starts}

VARIABLES
    mux,            \* s.mux: registered pattern -> handler
    regOutcome,     \* how the last RegisterHandler call for each path ended
    firstReg,       \* the handler of the first RegisterHandler call per path
    lastReg,        \* the handler of the most recent RegisterHandler call per path
    middlewares,    \* s.middlewares
    srv,            \* s.srv: Nil or the handle of the last Start
    servers,        \* the http.Server objects, by handle
    onceDone,       \* s.closer: sync.Once.done
    onceHolder,     \* s.closer: who holds sync.Once.m
    startPc,        \* position of each Start invocation
    cancelled,      \* whether the ctx passed to each Start is done
    acceptPc,       \* position of the goroutine each Start launches
    acceptSrv,      \* the handle the goroutine's ListenAndServe runs on
    acceptErr,      \* the error the goroutine's ListenAndServe returned
    acceptLog,      \* what the goroutine logged at Error level
    stopPc,         \* position of each Stop invocation
    stopSrv,        \* the handle Shutdown was called on by the invocation
    stopErr,        \* the error Shutdown returned to the invocation
    shutdownLog,    \* the outcomes logged by the shutdown body, in order
    earlyStop,      \* the first Stop invoked while s.srv was still nil: none,
                    \* one before Start was invoked, or one before Start's write
    resolved,       \* ResizerFromString: the outcome of the last call per name
    cfgs,           \* the PoolConfig objects handed out so far
    lastCfg         \* the value DefaultPoolConfig returned last

regVars == <<mux, regOutcome, firstReg, lastReg, middlewares>>
lifeVars == <<srv, servers, onceDone, onceHolder, startPc, cancelled, acceptPc,
              acceptSrv, acceptErr, acceptLog, stopPc, stopSrv, stopErr,
              shutdownLog, earlyStop>>
poolVars == <<resolved, cfgs, lastCfg>>
vars == <<regVars, lifeVars, poolVars>>

\* ------------------------------------------------- handlers and middleware
\* An http.Handler value: the mux itself, or a middleware wrapped around one.
MuxHandler == <<>>
Wrap(m, h) == <<m, h>>

\* The middlewares a request passes through, outermost first.
RECURSIVE Trace(_)
Trace(h) == IF h = MuxHandler THEN <<>> ELSE <<h[1]>> \o Trace(h[2])

RECURSIVE Reverse(_)
Reverse(q) == IF q = <<>> THEN <<>> ELSE Reverse(Tail(q)) \o <<Head(q)>>

\* m0(m1(...mn-1(H))) written out from the head of the sequence.
RECURSIVE Nested(_)
Nested(q) == IF q = <<>> THEN MuxHandler ELSE Wrap(Head(q), Nested(Tail(q)))

SeqsUpTo(S, n) == UNION {[1..k -> S] : k \in 0..n}

\* the loop of applyMiddlewares: for i := len-1; i >= 0; i-- { h = mws[i](h) }
\* (indices are 1-based here)
RECURSIVE ApplyLoop(_, _, _)
ApplyLoop(mws, i, h) ==
    IF i >= 1 THEN ApplyLoop(mws, i - 1, Wrap(mws[i], h)) ELSE h

RECURSIVE ApplyLoopForward(_, _, _)
ApplyLoopForward(mws, i, h) ==
    IF i <= Len(mws) THEN ApplyLoopForward(mws, i + 1, Wrap(mws[i], h)) ELSE h

applyMiddlewaresForward(mws) == ApplyLoopForward(mws, 1, MuxHandler)

applyMiddlewares(mws) == ApplyLoop(mws, Len(mws), MuxHandler)

\* http.ServeMux.Handle as called by RegisterHandler: a pattern that is
\* already registered makes Handle panic and leaves the registry as it was.
MuxHandleOverwrite(m, p, h) == [mux |-> [m EXCEPT ![p] = h], outcome |-> "ok"]

MuxHandle(m, p, h) ==
    IF m[p] # NoHandler
    THEN [mux |-> m, outcome |-> "panic"]
    ELSE [mux |-> [m EXCEPT ![p] = h], outcome |-> "ok"]

\* the handler the mux dispatches a request for path p to
Dispatch(p) == mux[p]

RegisterHandler(p, h) ==
    /\ mux' = MuxHandle(mux, p, h).mux
    /\ regOutcome' = [regOutcome EXCEPT ![p] = MuxHandle(mux, p, h).outcome]
    /\ firstReg' = [firstReg EXCEPT ![p] = IF @ = NoHandler THEN h ELSE @]
    /\ lastReg' = [lastReg EXCEPT ![p] = h]
    /\ UNCHANGED <<middlewares, lifeVars, poolVars>>

\* the new middleware put at the front of the slice
RegisterMiddlewarePrepend(m) ==
    /\ Len(middlewares) < MaxMiddlewares
    /\ middlewares' = <<m>> \o middlewares
    /\ UNCHANGED <<mux, regOutcome, firstReg, lastReg, lifeVars, poolVars>>

\* s.middlewares = append(s.middlewares, m)
RegisterMiddleware(m) ==
    /\ Len(middlewares) < MaxMiddlewares
    /\ middlewares' = Append(middlewares, m)
    /\ UNCHANGED <<mux, regOutcome, firstReg, lastReg, lifeVars, poolVars>>

\* ------------------------------------------------------------- Start
NewServer(mws) ==
    [created |-> TRUE, handler |-> applyMiddlewares(mws), chain |-> mws,
     inShutdown |-> FALSE, listening |-> FALSE, busy |-> FALSE,
     shutdownCalls |-> 0]

NoServer ==
    [created |-> FALSE, handler |-> MuxHandler, chain |-> <<>>,
     inShutdown |-> FALSE, listening |-> FALSE, busy |-> FALSE,
     shutdownCalls |-> 0]

\* a caller invokes s.Start(ctx)
StartCall(s) ==
    /\ startPc[s] = "idle"
    /\ IF s = 1 THEN TRUE ELSE startPc[s - 1] = "returned"   \* see Starts
    /\ startPc' = [startPc EXCEPT ![s] = "assign"]
    /\ UNCHANGED <<regVars, srv, servers, onceDone, onceHolder, cancelled,
                   acceptPc, acceptSrv, acceptErr, acceptLog, stopPc, stopSrv,
                   stopErr, shutdownLog, earlyStop, poolVars>>

\* a Start that also arms a new one-shot guard for the handle it creates
StartAssignNewGuard(s) ==
    /\ startPc[s] = "assign"
    /\ srv' = s
    /\ servers' = [servers EXCEPT ![s] = NewServer(middlewares)]
    /\ startPc' = [startPc EXCEPT ![s] = "launch"]
    /\ onceDone' = FALSE
    /\ UNCHANGED <<regVars, onceHolder, cancelled, acceptPc, acceptSrv,
                   acceptLog, acceptErr, stopPc, stopSrv, stopErr, shutdownLog,
                   earlyStop, poolVars>>

\* s.srv = &http.Server{..., Handler: s.applyMiddlewares(), ...}
StartAssign(s) ==
    /\ startPc[s] = "assign"
    /\ srv' = s
    /\ servers' = [servers EXCEPT ![s] = NewServer(middlewares)]
    /\ startPc' = [startPc EXCEPT ![s] = "launch"]
    /\ UNCHANGED <<regVars, onceDone, onceHolder, cancelled, acceptPc, acceptSrv,
                   acceptLog, acceptErr, stopPc, stopSrv, stopErr, shutdownLog, earlyStop,
                   poolVars>>

\* go func() { ... }()
StartLaunch(s) ==
    /\ startPc[s] = "launch"
    /\ acceptPc' = [acceptPc EXCEPT ![s] = "spawned"]
    /\ startPc' = [startPc EXCEPT ![s] = "wait"]
    /\ UNCHANGED <<regVars, srv, servers, onceDone, onceHolder, cancelled,
                   acceptSrv, acceptLog, acceptErr, stopPc, stopSrv, stopErr, shutdownLog,
                   earlyStop, poolVars>>

\* sync.Once: o.done.Load() == 0
OnceNeverDone == TRUE

OnceNotDone == ~onceDone

\* s.closer.Do, the fast path: where the caller goes after its first look at
\* done; a fired Once makes Do, and Stop, return at once
OnceFast == IF OnceNotDone THEN "lock" ELSE "ret"

\* what lets <-ctx.Done() proceed
CtxDoneOrStopped(s) == cancelled[s] \/ onceDone

CtxDoneOrAcceptExit(s) == cancelled[s] \/ acceptPc[s] = "exited"

CtxDone(s) == cancelled[s]

\* <-ctx.Done(); s.Stop() is entered and s.closer.Do takes its first look at
\* the Once
StartCtxDone(s) ==
    /\ startPc[s] = "wait"
    /\ CtxDone(s)
    /\ startPc' = [startPc EXCEPT ![s] = "stopping"]
    /\ stopPc' = [stopPc EXCEPT ![<<"start", s>>] = OnceFast]
    /\ UNCHANGED <<regVars, srv, servers, onceDone, onceHolder, cancelled,
                   acceptPc, acceptSrv, acceptLog, acceptErr, stopSrv, stopErr, shutdownLog,
                   earlyStop, poolVars>>

\* s.Stop() has returned, and so does Start
StartReturn(s) ==
    /\ startPc[s] = "stopping"
    /\ stopPc[<<"start", s>>] = "ret"
    /\ startPc' = [startPc EXCEPT ![s] = "returned"]
    /\ UNCHANGED <<regVars, srv, servers, onceDone, onceHolder, cancelled,
                   acceptPc, acceptSrv, acceptLog, acceptErr, stopPc, stopSrv, stopErr,
                   shutdownLog, earlyStop, poolVars>>

\* the environment cancels the context given to Start; Start looks at the
\* context only in its wait, so a context cancelled before the call is the
\* same as one cancelled before the wait
Cancel(s) ==
    /\ ~cancelled[s]
    /\ startPc[s] \in {"assign", "launch", "wait"}
    /\ cancelled' = [cancelled EXCEPT ![s] = TRUE]
    /\ UNCHANGED <<regVars, srv, servers, onceDone, onceHolder, startPc,
                   acceptPc, acceptSrv, acceptLog, acceptErr, stopPc, stopSrv, stopErr,
                   shutdownLog, earlyStop, poolVars>>

\* ------------------------------------------------- the accept goroutine
AddressBound == \E h \in Starts : servers[h].listening

ErrServerClosed == "http: Server closed"

\* http.Server.Serve: whatever ends the accept loop, a server that is
\* shutting down returns ErrServerClosed
ServeErr(h, e) == IF servers[h].inShutdown THEN ErrServerClosed ELSE e

\* err != nil
LogsAnyErr(err) == TRUE

\* !errors.Is(err, http.ErrServerClosed)
LogsServeErr(err) == err # ErrServerClosed

AcceptFrame == <<regVars, srv, onceDone, onceHolder, startPc, cancelled, stopPc,
                 stopSrv, stopErr, shutdownLog, earlyStop,
                 poolVars>>

\* ListenAndServe returns err; the goroutine logs it or not, and ends
AcceptExit(s, err) ==
    /\ acceptPc' = [acceptPc EXCEPT ![s] = "exited"]
    /\ acceptErr' = [acceptErr EXCEPT ![s] = err]
    /\ acceptLog' = [acceptLog EXCEPT
                       ![s] = IF LogsServeErr(err) THEN "error" ELSE "none"]

\* Info log, then s.srv.ListenAndServe() is entered on the handle s.srv holds
\* now; a server already shutting down returns ErrServerClosed at once.
AcceptListen(s) ==
    /\ acceptPc[s] = "spawned"
    /\ acceptSrv' = [acceptSrv EXCEPT ![s] = srv]
    /\ IF servers[srv].inShutdown
       THEN AcceptExit(s, ErrServerClosed)
       ELSE /\ acceptPc' = [acceptPc EXCEPT ![s] = "bind"]
            /\ UNCHANGED <<acceptErr, acceptLog>>
    /\ UNCHANGED servers
    /\ UNCHANGED AcceptFrame

\* net.Listen fails: ListenAndServe returns the error, which is logged
AcceptBindFail(s) ==
    /\ acceptPc[s] = "bind"
    /\ AcceptExit(s, "listen error")
    /\ UNCHANGED <<servers, acceptSrv>>
    /\ UNCHANGED AcceptFrame

\* net.Listen succeeds; Serve registers the listener unless the server is
\* shutting down by then, in which case it returns ErrServerClosed.
AcceptBindOk(s) ==
    /\ acceptPc[s] = "bind"
    /\ ~AddressBound
    /\ IF servers[acceptSrv[s]].inShutdown
       THEN /\ AcceptExit(s, ErrServerClosed)
            /\ UNCHANGED servers
       ELSE /\ acceptPc' = [acceptPc EXCEPT ![s] = "serving"]
            /\ servers' = [servers EXCEPT ![acceptSrv[s]].listening = TRUE]
            /\ UNCHANGED <<acceptErr, acceptLog>>
    /\ UNCHANGED acceptSrv
    /\ UNCHANGED AcceptFrame

\* a request arrives on an idle server and is being handled (busy: some
\* connection of the server is not idle)
AcceptRequest(s) ==
    /\ acceptPc[s] = "serving"
    /\ servers[acceptSrv[s]].listening
    /\ ~servers[acceptSrv[s]].busy
    /\ servers' = [servers EXCEPT ![acceptSrv[s]].busy = TRUE]
    /\ UNCHANGED <<acceptPc, acceptSrv, acceptErr, acceptLog>>
    /\ UNCHANGED AcceptFrame

\* the requests in flight have all completed
RequestDone(h) ==
    /\ servers[h].busy
    /\ servers' = [servers EXCEPT ![h].busy = FALSE]
    /\ UNCHANGED <<acceptPc, acceptSrv, acceptErr, acceptLog>>
    /\ UNCHANGED AcceptFrame

\* Shutdown closed the listener: Accept fails, Serve returns ErrServerClosed
AcceptClosed(s) ==
    /\ acceptPc[s] = "serving"
    /\ servers[acceptSrv[s]].inShutdown
    /\ AcceptExit(s, ServeErr(acceptSrv[s], "accept error"))
    /\ UNCHANGED <<servers, acceptSrv>>
    /\ UNCHANGED AcceptFrame

\* Accept fails for good while serving: Serve closes the listener and returns
\* the error
AcceptError(s) ==
    /\ acceptPc[s] = "serving"
    /\ ~servers[acceptSrv[s]].inShutdown
    /\ AcceptExit(s, ServeErr(acceptSrv[s], "accept error"))
    /\ servers' = [servers EXCEPT ![acceptSrv[s]].listening = FALSE]
    /\ UNCHANGED acceptSrv
    /\ UNCHANGED AcceptFrame

\* ---------------------------------------------------------------- Stop
\* everything a Stop invocation leaves alone besides the Once and its own state
StopFrame == <<regVars, srv, startPc, cancelled, acceptPc, acceptSrv, acceptLog, acceptErr,
               earlyStop, poolVars>>

\* an external caller invokes s.Stop(), and s.closer.Do takes its first look
\* at the Once
StopCall(k) ==
    /\ stopPc[<<"ext", k>>] = "idle"
    /\ IF k = 1 THEN TRUE ELSE stopPc[<<"ext", k - 1>>] # "idle"
    /\ stopPc' = [stopPc EXCEPT ![<<"ext", k>>] = OnceFast]
    /\ earlyStop' = IF earlyStop # "none" \/ srv # Nil THEN earlyStop
                    ELSE IF startPc[1] = "idle" THEN "beforeStart"
                    ELSE "beforeAssign"
    /\ UNCHANGED <<regVars, srv, servers, onceDone, onceHolder, startPc,
                   cancelled, acceptPc, acceptSrv, acceptLog, acceptErr, stopSrv,
                   stopErr, shutdownLog, poolVars>>

\* doSlow: o.m.Lock(), then the second look at done under the lock; a caller
\* that finds the Once fired unlocks and returns
OnceLock(c) ==
    /\ stopPc[c] = "lock"
    /\ onceHolder = NoCaller
    /\ IF OnceNotDone
       THEN /\ onceHolder' = c
            /\ stopPc' = [stopPc EXCEPT ![c] = "body"]
       ELSE /\ onceHolder' = NoCaller
            /\ stopPc' = [stopPc EXCEPT ![c] = "ret"]
    /\ UNCHANGED <<servers, onceDone, stopSrv, stopErr, shutdownLog>>
    /\ UNCHANGED StopFrame

\* the errors closing the listeners can give Shutdown to return
CloseErrors(h) == IF servers[h].listening THEN {"nil", "close error"} ELSE {"nil"}

\* the body: context.WithTimeout, then s.srv.Shutdown(ctx) is entered.
\* With s.srv nil the call dereferences nil and panics; the deferred
\* done.Store(1) and m.Unlock() of sync.Once run while the panic unwinds.
\* Nothing orders this read of s.srv with the write in Start: the read sees
\* nil or the handle, as this step comes before or after StartAssign.
ShutdownBegin(c) ==
    /\ stopPc[c] = "body"
    /\ IF srv = Nil
       THEN /\ stopPc' = [stopPc EXCEPT ![c] = "panic"]
            /\ onceDone' = TRUE
            /\ onceHolder' = NoCaller
            /\ UNCHANGED <<servers, stopSrv, stopErr>>
       ELSE /\ \E e \in CloseErrors(srv) :
                  stopErr' = [stopErr EXCEPT ![c] = e]
            /\ servers' = [servers EXCEPT ![srv].inShutdown = TRUE,
                                          ![srv].listening = FALSE,
                                          ![srv].shutdownCalls = @ + 1]
            /\ stopSrv' = [stopSrv EXCEPT ![c] = srv]
            /\ stopPc' = [stopPc EXCEPT ![c] = "drain"]
            /\ UNCHANGED <<onceDone, onceHolder>>
    /\ UNCHANGED shutdownLog
    /\ UNCHANGED StopFrame

\* Shutdown finds no request in flight and returns the listeners' close error
DrainDone(c) ==
    /\ stopPc[c] = "drain"
    /\ ~servers[stopSrv[c]].busy
    /\ stopPc' = [stopPc EXCEPT ![c] = "log"]
    /\ UNCHANGED <<servers, onceDone, onceHolder, stopSrv, stopErr, shutdownLog>>
    /\ UNCHANGED StopFrame

\* context.WithTimeout(context.Background(), 5*time.Second): the deadline comes
NoDeadline == FALSE

GraceDeadline == TRUE

\* the deadline passes with requests still in flight: Shutdown returns ctx.Err()
DrainTimeout(c) ==
    /\ stopPc[c] = "drain"
    /\ servers[stopSrv[c]].busy
    /\ GraceDeadline
    /\ stopErr' = [stopErr EXCEPT ![c] = "deadline exceeded"]
    /\ stopPc' = [stopPc EXCEPT ![c] = "log"]
    /\ UNCHANGED <<servers, onceDone, onceHolder, stopSrv, shutdownLog>>
    /\ UNCHANGED StopFrame

\* only the error branch logs
LogShutdownErrorsOnly(log, err) == IF err # "nil" THEN Append(log, err) ELSE log

\* if err != nil { logger.Error(..., err) } else { logger.Info(...) }: one
\* entry either way, "nil" standing for the Info line
LogShutdown(log, err) == Append(log, err)

\* the outcome is logged (Error with the error, or Info), the body returns,
\* the Once is marked done and unlocked, and Stop returns
StopLog(c) ==
    /\ stopPc[c] = "log"
    /\ shutdownLog' = LogShutdown(shutdownLog, stopErr[c])
    /\ onceDone' = TRUE
    /\ onceHolder' = NoCaller
    /\ stopPc' = [stopPc EXCEPT ![c] = "ret"]
    /\ stopSrv' = [stopSrv EXCEPT ![c] = Nil]
    /\ stopErr' = [stopErr EXCEPT ![c] = "nil"]
    /\ UNCHANGED servers
    /\ UNCHANGED StopFrame

\* ------------------------------------------------------ package worker
ResizerNames == {"eager", "lazy", "balanced", "", "Balanced", "bogus"}
Policies == {"pond.Eager", "pond.Lazy", "pond.Balanced"}
ResizerPanic == "panic: invalid resizer name"

ResizerFromStringDefaulting(name) ==
    CASE name = "eager" -> "pond.Eager"
      [] name = "lazy" -> "pond.Lazy"
      [] name = "balanced" -> "pond.Balanced"
      [] OTHER -> "pond.Balanced"

ResizerFromString(name) ==
    CASE name = "eager" -> "pond.Eager"
      [] name = "lazy" -> "pond.Lazy"
      [] name = "balanced" -> "pond.Balanced"
      [] OTHER -> ResizerPanic

\* the default's bounds the wrong way round
DefaultPoolConfigSwapped ==
    [Name |-> "default", PrometheusPrefix |-> "default", MinWorkers |-> 32,
     MaxWorkers |-> 4, ResizingStrategy |-> "balanced", MaxQueuedJobs |-> 100]

\* a package-level default handed out again and again
DefaultPoolConfigShared ==
    IF cfgs # <<>>
    THEN cfgs[1]
    ELSE [Name |-> "default", PrometheusPrefix |-> "default", MinWorkers |-> 4,
          MaxWorkers |-> 32, ResizingStrategy |-> "balanced",
          MaxQueuedJobs |-> 100]

DefaultPoolConfig ==
    [Name |-> "default", PrometheusPrefix |-> "default", MinWorkers |-> 4,
     MaxWorkers |-> 32, ResizingStrategy |-> "balanced", MaxQueuedJobs |-> 100]

\* a caller resolves a strategy name
Resolve(n) ==
    /\ resolved' = [resolved EXCEPT ![n] = ResizerFromString(n)]
    /\ UNCHANGED <<cfgs, lastCfg, regVars, lifeVars>>

\* a caller asks for the default config and gets a new object
CallDefaultPoolConfig ==
    /\ Len(cfgs) < MaxCfgs
    /\ cfgs' = Append(cfgs, DefaultPoolConfig)
    /\ lastCfg' = <<DefaultPoolConfig>>
    /\ UNCHANGED <<resolved, regVars, lifeVars>>

\* PoolConfig has exported fields and no constructor: the composite literals
\* callers write, here one with a negative minimum and an unknown strategy
\* and one with the minimum above the maximum
ExplicitConfigs ==
    {[Name |-> "explicit", PrometheusPrefix |-> "explicit", MinWorkers |-> -1,
      MaxWorkers |-> 32, ResizingStrategy |-> "bogus", MaxQueuedJobs |-> 100],
     [Name |-> "explicit", PrometheusPrefix |-> "explicit", MinWorkers |-> 64,
      MaxWorkers |-> 32, ResizingStrategy |-> "eager", MaxQueuedJobs |-> 100]}

\* a caller builds a config with explicit field values: PoolConfig{...}
ConstructPoolConfig(c) ==
    /\ Len(cfgs) < MaxCfgs
    /\ cfgs' = Append(cfgs, c)
    /\ lastCfg' = <<>>
    /\ UNCHANGED <<resolved, regVars, lifeVars>>

\* the writes callers make to a config they hold (the fields are exported)
FieldWrites == {<<"MinWorkers", 64>>, <<"ResizingStrategy", "bogus">>,
                <<"MaxQueuedJobs", 0>>}

WriteField(i, w) ==
    /\ i \in 1..Len(cfgs)
    /\ cfgs[i][w[1]] # w[2]
    /\ cfgs' = [cfgs EXCEPT ![i] = [@ EXCEPT ![w[1]] = w[2]]]
    /\ lastCfg' = <<>>
    /\ UNCHANGED <<resolved, regVars, lifeVars>>

\* ------------------------------------------------------- specifications
InitReg ==
    /\ mux = [p \in Paths |-> NoHandler]
    /\ regOutcome = [p \in Paths |-> "none"]
    /\ firstReg = [p \in Paths |-> NoHandler]
    /\ lastReg = [p \in Paths |-> NoHandler]

\* a constructor that already builds the http.Server
InitLifeAssigned ==
    /\ srv = 1
    /\ servers = [h \in Starts |-> IF h = 1 THEN NewServer(<<>>) ELSE NoServer]
    /\ onceDone = FALSE
    /\ onceHolder = NoCaller
    /\ startPc = [s \in Starts |-> "idle"]
    /\ cancelled = [s \in Starts |-> FALSE]
    /\ acceptPc = [s \in Starts |-> "none"]
    /\ acceptSrv = [s \in Starts |-> Nil]
    /\ acceptErr = [s \in Starts |-> "none"]
    /\ acceptLog = [s \in Starts |-> "none"]
    /\ stopPc = [c \in StopCallers |-> "idle"]
    /\ stopSrv = [c \in StopCallers |-> Nil]
    /\ stopErr = [c \in StopCallers |-> "nil"]
    /\ shutdownLog = <<>>
    /\ earlyStop = "none"

\* New: srv is left at its zero value, the closer is unfired
InitLife ==
    /\ srv = Nil
    /\ servers = [h \in Starts |-> NoServer]
    /\ onceDone = FALSE
    /\ onceHolder = NoCaller
    /\ startPc = [s \in Starts |-> "idle"]
    /\ cancelled = [s \in Starts |-> FALSE]
    /\ acceptPc = [s \in Starts |-> "none"]
    /\ acceptSrv = [s \in Starts |-> Nil]
    /\ acceptErr = [s \in Starts |-> "none"]
    /\ acceptLog = [s \in Starts |-> "none"]
    /\ stopPc = [c \in StopCallers |-> "idle"]
    /\ stopSrv = [c \in StopCallers |-> Nil]
    /\ stopErr = [c \in StopCallers |-> "nil"]
    /\ shutdownLog = <<>>
    /\ earlyStop = "none"

InitPool ==
    /\ resolved = [n \in ResizerNames |-> "uncalled"]
    /\ cfgs = <<>>
    /\ lastCfg = <<>>

\* New(cfg, logger) with no middleware
Init ==
    /\ InitReg
    /\ middlewares = <<>>
    /\ InitLife
    /\ InitPool

StartStep(s) ==
    \/ StartCall(s)
    \/ StartAssign(s)
    \/ StartLaunch(s)
    \/ StartCtxDone(s)
    \/ StartReturn(s)

AcceptStep(s) ==
    \/ AcceptListen(s)
    \/ AcceptBindFail(s)
    \/ AcceptBindOk(s)
    \/ AcceptClosed(s)
    \/ AcceptError(s)

StopStep(c) ==
    \/ OnceLock(c)
    \/ ShutdownBegin(c)
    \/ DrainDone(c)
    \/ DrainTimeout(c)
    \/ StopLog(c)

Next ==
    \/ \E s \in Starts : StartStep(s)
    \/ \E s \in Starts : Cancel(s)
    \/ \E s \in Starts : AcceptStep(s)
    \/ \E s \in Starts : AcceptRequest(s)
    \/ \E h \in Starts : RequestDone(h)
    \/ \E k \in ExtStops : StopCall(k)
    \/ \E c \in StopCallers : StopStep(c)

\* The lifecycle of a server built by New(cfg, logger).
Spec == Init /\ [][Next]_vars

\* The goroutines keep running: Start's after the call, the accept goroutine,
\* and every Stop invocation once made (the grace deadline included). Calls,
\* cancellation and the completion of requests are up to the environment.
StartProgress(s) ==
    StartAssign(s) \/ StartLaunch(s) \/ StartCtxDone(s) \/ StartReturn(s)

Fairness ==
    /\ \A s \in Starts : WF_vars(StartProgress(s))
    /\ \A s \in Starts : WF_vars(AcceptStep(s))
    /\ \A c \in StopCallers : WF_vars(StopStep(c))

FairSpec == Spec /\ Fairness

\* Registration and composition: New with any middlewares, RegisterHandler and
\* RegisterMiddleware at any time, around one Start and one external Stop.
InitChain ==
    /\ InitReg
    /\ middlewares \in SeqsUpTo(MwIds, MaxMiddlewares)
    /\ InitLife
    /\ InitPool

NextChain ==
    \/ \E p \in Paths, h \in HandlerIds : RegisterHandler(p, h)
    \/ \E m \in MwIds : RegisterMiddleware(m)
    \/ StartStep(1)
    \/ Cancel(1)
    \/ AcceptStep(1)
    \/ AcceptRequest(1)
    \/ RequestDone(1)
    \/ StopCall(1)
    \/ \E c \in {<<"ext", 1>>, <<"start", 1>>} : StopStep(c)

SpecChain == InitChain /\ [][NextChain]_vars

\* Package worker on its own.
NextPool ==
    \/ \E n \in ResizerNames : Resolve(n)
    \/ CallDefaultPoolConfig
    \/ \E c \in ExplicitConfigs : ConstructPoolConfig(c)
    \/ \E i \in 1..MaxCfgs, w \in FieldWrites : WriteField(i, w)

SpecPool == Init /\ [][NextPool]_vars

\* ================================================================ claims
RECURSIVE SumShutdowns(_)
SumShutdowns(S) ==
    IF S = {} THEN 0
    ELSE LET h == CHOOSE x \in S : TRUE
         IN servers[h].shutdownCalls + SumShutdowns(S \ {h})

\* the number of Shutdown requests made on any handle so far
TotalShutdowns == SumShutdowns(Starts)

\* C1: on a server whose handle was assigned before any Stop was invoked, the
\* Stop invocations together make exactly one Shutdown request, none of them
\* panics, each of them returns (an invocation never goes back to "idle", so
\* in the end every invocation made is at "ret"), and an invocation that finds
\* the Once fired returns having changed nothing but its own position.
C1_StopOnce ==
    /\ [](TotalShutdowns <= 1)
    /\ <>[](earlyStop = "none" => \A c \in StopCallers : stopPc[c] \in {"idle", "ret"})
    /\ [](earlyStop = "none" => \A c \in StopCallers : stopPc[c] # "panic")
    /\ []((earlyStop = "none" /\ \E c \in StopCallers : stopPc[c] = "ret")
            => TotalShutdowns = 1)
    /\ [][\A c \in StopCallers :
            (onceDone /\ stopPc'[c] # stopPc[c])
              => /\ stopPc'[c] = "ret"
                 /\ UNCHANGED <<regVars, srv, servers, onceDone, onceHolder,
                                acceptPc, acceptSrv, acceptLog, shutdownLog,
                                cancelled>>]_vars

\* three invocations have returned, two of them after the Once had fired
C1_Witness ==
    /\ earlyStop = "none"
    /\ stopPc[<<"ext", 1>>] = "ret"
    /\ stopPc[<<"ext", 2>>] = "ret"
    /\ stopPc[<<"start", 1>>] = "ret"
    /\ TotalShutdowns = 1

\* C2: Stop on a server on which Start was never invoked (s.srv is nil)
\* returns normally: no Stop invocation ends in a panic while no Start has
\* been invoked.
C2_StopBeforeStartReturns ==
    (srv = Nil /\ \A s \in Starts : startPc[s] = "idle")
        => \A c \in StopCallers : stopPc[c] # "panic"

\* C3: once the context given to a Start is cancelled, that Start returns,
\* whether or not the requests in flight ever complete (a cancelled context
\* stays cancelled, so in the end every Start whose context is cancelled has
\* returned).
C3_StartReturnsAfterCancel ==
    <>[](\A s \in Starts : cancelled[s] => startPc[s] = "returned")

\* Start has returned although a request is still in flight: the drain ended
\* at the deadline
C3_Witness ==
    \E s \in Starts :
        /\ startPc[s] = "returned"
        /\ servers[s].busy
        /\ shutdownLog = <<"deadline exceeded">>

\* C4: the handler composed at Start has the middleware registered last as
\* the outermost wrapper and the one registered first as the innermost: a
\* request passes through the middlewares in reverse registration order.
C4_LastRegisteredOutermost ==
    \A h \in Starts :
        servers[h].created => Trace(servers[h].handler) = Reverse(servers[h].chain)

C6_StartBlocksUntilCancelled ==
    \A s \in Starts :
        /\ startPc[s] \in {"stopping", "returned"} => cancelled[s]
        /\ (acceptLog[s] = "error" /\ ~cancelled[s]) => startPc[s] = "wait"

\* the accept goroutine has failed and logged, Start is still waiting
C6_Witness ==
    \E s \in Starts :
        /\ acceptPc[s] = "exited"
        /\ acceptLog[s] = "error"
        /\ ~cancelled[s]
        /\ startPc[s] = "wait"

\* C7 as claimed: a Start blocked in its wait returns once an external Stop
\* has run, even if its context is never cancelled.
C7_StopUnblocksStart ==
    \A s \in Starts :
        (/\ startPc[s] = "wait"
         /\ servers[s].shutdownCalls = 1
         /\ \E k \in ExtStops : stopPc[<<"ext", k>>] = "ret")
            ~> (startPc[s] = "returned")

\* C7 as amended: only the cancellation of its context lets a Start leave its
\* wait; an external Stop that has run leaves it blocked, and once the context
\* is cancelled the Start returns.
C7_OnlyCancelUnblocksStart ==
    /\ [][\A s \in Starts :
            (startPc[s] = "wait" /\ startPc'[s] # "wait") => cancelled[s]]_vars
    /\ <>[](\A s \in Starts :
                (onceDone /\ cancelled[s]) => startPc[s] = "returned")

\* an external Stop has shut the server down and Start is still blocked
C7_Witness ==
    \E s \in Starts :
        /\ startPc[s] = "wait"
        /\ ~cancelled[s]
        /\ stopPc[<<"ext", 1>>] = "ret"
        /\ servers[s].inShutdown
        /\ shutdownLog # <<>>

\* C8 as claimed: no RegisterHandler call panics, and a path is served by the
\* handler of the most recent registration for it.
C8_LastRegistrationWins ==
    \A p \in Paths :
        /\ regOutcome[p] # "panic"
        /\ lastReg[p] # NoHandler => Dispatch(p) = lastReg[p]

\* C8 as amended: a RegisterHandler call for a path that already has a
\* handler panics, and a path is served by the handler of the first
\* registration for it.
C8_FirstRegistrationStays ==
    \A p \in Paths :
        /\ Dispatch(p) = firstReg[p]
        /\ regOutcome[p] = "ok" => lastReg[p] = firstReg[p]
        /\ regOutcome[p] = "panic" => firstReg[p] # NoHandler

\* a second handler was registered for a path and the first one serves it
C8_Witness ==
    \E p \in Paths :
        /\ regOutcome[p] = "panic"
        /\ lastReg[p] # firstReg[p]
        /\ Dispatch(p) = firstReg[p]

\* C9: ResizerFromString gives "eager", "lazy" and "balanced" each its own
\* policy, the same on every call, and panics for every other name.
C9_ResolveStrategy ==
    /\ \A n \in ResizerNames :
         resolved[n] # "uncalled" =>
            /\ n = "eager" => resolved[n] = "pond.Eager"
            /\ n = "lazy" => resolved[n] = "pond.Lazy"
            /\ n = "balanced" => resolved[n] = "pond.Balanced"
            /\ n \notin {"eager", "lazy", "balanced"} => resolved[n] = ResizerPanic
    /\ \A n1, n2 \in {"eager", "lazy", "balanced"} :
         (n1 # n2 /\ resolved[n1] # "uncalled" /\ resolved[n2] # "uncalled")
            => resolved[n1] # resolved[n2]

C9_Witness ==
    /\ resolved["eager"] = "pond.Eager"
    /\ resolved["lazy"] = "pond.Lazy"
    /\ resolved["balanced"] = "pond.Balanced"
    /\ resolved["bogus"] = ResizerPanic
    /\ resolved[""] = ResizerPanic
    /\ resolved["Balanced"] = ResizerPanic

\* C10: what DefaultPoolConfig returns is always name "default", min 4,
\* max 32, strategy "balanced", queue 100, whatever was done to the configs
\* returned before; min <= max and the strategy resolves to a policy.
C10_DefaultIsLiteral ==
    lastCfg # <<>> =>
        /\ lastCfg[1].Name = "default"
        /\ lastCfg[1].MinWorkers = 4
        /\ lastCfg[1].MaxWorkers = 32
        /\ lastCfg[1].ResizingStrategy = "balanced"
        /\ lastCfg[1].MaxQueuedJobs = 100
        /\ lastCfg[1].MinWorkers <= lastCfg[1].MaxWorkers
        /\ ResizerFromString(lastCfg[1].ResizingStrategy) \in Policies

\* a default config was returned after an earlier one had been written to
C10_Witness ==
    /\ Len(cfgs) = 2
    /\ cfgs[1].MinWorkers = 64
    /\ cfgs[1].ResizingStrategy = "bogus"
    /\ lastCfg # <<>>
    /\ cfgs[2] = lastCfg[1]

\* the shutdown body has run to its end on handle h: Shutdown was requested on
\* h and the invocation that requested it has logged the outcome
BodyCompletedOn(h) ==
    /\ servers[h].shutdownCalls = 1
    /\ \A c \in StopCallers : stopSrv[c] # h

\* the server was fresh when Start s was invoked: s is the first Start and no
\* Stop had been invoked before it
FreshAtStart(s) == s = 1 /\ earlyStop # "beforeStart"

\* C11: a Start invoked on a fresh server (no Stop invoked yet) returns only
\* after the shutdown body has completed on the handle this Start created,
\* whichever Stop invocation ran the body.
C11_StartReturnsAfterShutdownBody ==
    \A s \in Starts :
        (startPc[s] = "returned" /\ FreshAtStart(s)) => BodyCompletedOn(s)

\* C12: while a Start invocation is under way or done, a Stop invocation that
\* is about to read s.srv in the shutdown body finds the handle written: the
\* read never comes before Start's write.
C12_HandleReadAfterWrite ==
    \A c \in StopCallers :
        (stopPc[c] = "body" /\ startPc[1] # "idle") => srv # Nil

\* the lifecycle state of the server, read off what Start and Stop have done:
\* Stopped once the one-shot guard has fired, Stopping while an invocation is
\* inside the shutdown body, Serving once an accept task has been launched,
\* Starting once Start has been invoked, Idle before that
Lifecycle ==
    IF onceDone THEN "Stopped"
    ELSE IF \E c \in StopCallers : stopPc[c] \in {"body", "drain", "log"}
         THEN "Stopping"
    ELSE IF \E s \in Starts : acceptPc[s] # "none" THEN "Serving"
    ELSE IF \E s \in Starts : startPc[s] # "idle" THEN "Starting"
    ELSE "Idle"

LifecycleRank(l) ==
    CASE l = "Idle" -> 0
      [] l = "Starting" -> 1
      [] l = "Serving" -> 2
      [] l = "Stopping" -> 3
      [] l = "Stopped" -> 4

\* C13: every step leaves the lifecycle state where it is or moves it to the
\* next state of Idle, Starting, Serving, Stopping, Stopped (so the shutdown
\* body is never entered from Idle), and an accept task is launched only
\* from Starting, never once the server is Stopping or Stopped.
C13_LifecycleForwardOnly ==
    [][/\ LifecycleRank(Lifecycle') \in
            {LifecycleRank(Lifecycle), LifecycleRank(Lifecycle) + 1}
       /\ \A s \in Starts :
            (acceptPc[s] = "none" /\ acceptPc'[s] = "spawned")
                => Lifecycle = "Starting"]_vars

\* the handle the accept task of Start s is serving, or is about to serve
AcceptHandle(s) == IF acceptPc[s] = "spawned" THEN srv ELSE acceptSrv[s]

\* C14: an accept task that has ended has logged an error exactly when its
\* ListenAndServe returned something other than ErrServerClosed, and a task
\* that has not ended has logged none; a task ended by the shutdown of its
\* handle (before it listens, or while it serves) logs no error; a task that
\* has ended stays ended with its log as it is, and a Start launches its
\* accept task once.
C14_AcceptErrorLogged ==
    /\ [](\A s \in Starts :
            IF acceptPc[s] = "exited"
            THEN acceptLog[s] = "error" <=> acceptErr[s] # ErrServerClosed
            ELSE acceptLog[s] = "none" /\ acceptErr[s] = "none")
    /\ [][\A s \in Starts :
            (/\ acceptPc[s] \in {"spawned", "bind", "serving"}
             /\ acceptPc'[s] = "exited"
             /\ servers[AcceptHandle(s)].inShutdown
             /\ acceptErr'[s] # "listen error")
                => acceptErr'[s] = ErrServerClosed /\ acceptLog'[s] = "none"]_vars
    /\ [][\A s \in Starts :
            acceptPc[s] = "exited"
                => /\ acceptPc'[s] = "exited"
                   /\ acceptLog'[s] = acceptLog[s]
                   /\ acceptErr'[s] = acceptErr[s]]_vars
    /\ [][\A s \in Starts :
            acceptPc'[s] = "spawned" => acceptPc[s] \in {"none", "spawned"}]_vars

\* the first Start's accept task was ended by the shutdown and logged nothing,
\* the second's failed while serving and logged the error
C14_Witness ==
    /\ acceptPc[1] = "exited"
    /\ acceptErr[1] = ErrServerClosed
    /\ acceptLog[1] = "none"
    /\ servers[1].shutdownCalls = 1
    /\ acceptPc[2] = "exited"
    /\ acceptErr[2] = "accept error"
    /\ acceptLog[2] = "error"

\* the Stop invocations that are inside Shutdown or about to log its outcome
Draining == {c \in StopCallers : stopPc[c] \in {"drain", "log"}}

\* C15: each shutdown body that has got its outcome from Shutdown (nil, the
\* deadline error or the close error) logs that one outcome and returns
\* normally: the log holds one entry per completed body; the step that ends
\* a body appends the outcome it got, fires the guard and takes Stop to its
\* return; and no invocation that has entered Shutdown ends in a panic.
C15_OutcomeLoggedOnce ==
    /\ [](Len(shutdownLog) = TotalShutdowns - Cardinality(Draining))
    /\ [](\A i \in 1..Len(shutdownLog) :
            shutdownLog[i] \in {"nil", "deadline exceeded", "close error"})
    /\ [][\A c \in StopCallers :
            (stopPc[c] = "log" /\ stopPc'[c] # "log")
                => /\ stopPc'[c] = "ret"
                   /\ onceDone'
                   /\ shutdownLog' = Append(shutdownLog, stopErr[c])]_vars
    /\ [][\A c \in StopCallers :
            (stopPc[c] = "drain" /\ stopPc'[c] # "drain")
                => /\ stopPc'[c] = "log"
                   /\ shutdownLog' = shutdownLog
                   /\ stopErr'[c] \in {stopErr[c], "deadline exceeded"}]_vars
    /\ [][\A s \in Starts :
            (startPc[s] = "stopping" /\ startPc'[s] # "stopping")
                => startPc'[s] = "returned"]_vars

\* closing the listener failed: the error was logged, the guard is fired and
\* the Stop that ran the body has returned, as has the Start
C15_Witness ==
    /\ shutdownLog = <<"close error">>
    /\ onceDone
    /\ stopPc[<<"ext", 1>>] = "ret"
    /\ startPc[1] = "returned"
    /\ servers[1].shutdownCalls = 1

\* C16: a step changes the stored middleware sequence only by appending one
\* element at its end, so the sequence always begins with the middlewares
\* given to New, in their order; a step of RegisterHandler, Start, the accept
\* task or Stop leaves it as it is, and the composition in Start reads the
\* whole sequence as stored.
C16_MiddlewaresAppendOnly ==
    [][/\ \/ middlewares' = middlewares
          \/ \E m \in MwIds : middlewares' = Append(middlewares, m)
       /\ (lifeVars' # lifeVars \/ <<mux, regOutcome, firstReg, lastReg>>'
                                     # <<mux, regOutcome, firstReg, lastReg>>)
            => middlewares' = middlewares
       /\ \A s \in Starts :
            (~servers[s].created /\ servers'[s].created)
                => servers'[s].chain = middlewares']_vars

\* a middleware registered after Start composed the chain and after Stop ran
\* is at the end of the stored sequence, behind the one that was there
C16_Witness ==
    /\ middlewares = <<"a", "b">>
    /\ servers[1].created
    /\ servers[1].chain = <<"a">>
    /\ servers[1].shutdownCalls = 1
    /\ mux["/x"] # NoHandler

KnownStrategies == {"eager", "lazy", "balanced"}

\* C17: every PoolConfig built so far, by DefaultPoolConfig or with explicit
\* field values, has 0 <= MinWorkers <= MaxWorkers and a ResizingStrategy
\* among eager, lazy, balanced (building one with another strategy fails).
C17_ConfigInvariant ==
    \A i \in 1..Len(cfgs) :
        /\ 0 <= cfgs[i].MinWorkers
        /\ cfgs[i].MinWorkers <= cfgs[i].MaxWorkers
        /\ cfgs[i].ResizingStrategy \in KnownStrategies

\* C17, amended: the value DefaultPoolConfig returns has
\* 0 <= MinWorkers <= MaxWorkers and a known strategy; a config with explicit
\* field values is built whatever its values; and the one fatal failure is
\* that of ResizerFromString, when it is called with a name that is not known.
C17_OnlyDefaultIsValid ==
    /\ lastCfg # <<>> =>
          /\ 0 <= lastCfg[1].MinWorkers
          /\ lastCfg[1].MinWorkers <= lastCfg[1].MaxWorkers
          /\ lastCfg[1].ResizingStrategy \in KnownStrategies
    /\ \A i \in 1..Len(cfgs) :
          LET n == cfgs[i].ResizingStrategy
          IN  resolved[n] = ResizerPanic <=>
                  (resolved[n] # "uncalled" /\ n \notin KnownStrategies)

\* a config with a negative minimum and an unknown strategy was built, its
\* strategy made ResizerFromString panic when resolved, and a default config
\* was returned after that
C17_Witness ==
    /\ Len(cfgs) = 2
    /\ cfgs[1].MinWorkers = -1
    /\ cfgs[1].ResizingStrategy = "bogus"
    /\ resolved["bogus"] = ResizerPanic
    /\ lastCfg # <<>>

\* the Start invocations that have executed their assignment to s.srv
Assigned == {s \in Starts : startPc[s] \notin {"idle", "assign"}}

\* C18: s.srv is nil for as long as no Start has executed its assignment,
\* whatever New, RegisterHandler, RegisterMiddleware and Stop have done; from
\* then on it is the handle of the latest Start that has executed its
\* assignment, so nothing else writes it and a Start writes it once; and a
\* Start that has launched its accept task or waits on its context has
\* assigned the handle before.
C18_HandleAssignedByStartOnly ==
    /\ Assigned = {} => srv = Nil
    /\ Assigned # {} => srv \in Assigned /\ \A s \in Assigned : s <= srv
    /\ \A s \in Starts :
          /\ servers[s].created <=> s \in Assigned
          /\ acceptPc[s] # "none" => s \in Assigned
          /\ startPc[s] \in {"wait", "stopping", "returned"}
                => acceptPc[s] # "none"

\* handlers and a middleware were registered and a Stop ran and panicked while
\* s.srv was nil; the Start invoked after that assigned the handle and has
\* launched its accept task
C18_Witness ==
    /\ srv = 1
    /\ startPc[1] = "wait"
    /\ acceptPc[1] = "serving"
    /\ stopPc[<<"ext", 1>>] = "panic"
    /\ earlyStop = "beforeStart"
    /\ regOutcome["/x"] = "ok"
    /\ regOutcome["/y"] = "panic"
    /\ Len(middlewares) = 2

\* C19: over the life of the server Shutdown is requested at most once on all
\* handles together; once the one-shot guard has fired no step requests a
\* Shutdown on any handle, so the handle of every Start invoked after that
\* (each Start after the first is) never gets one; and such a Start still
\* assigns its handle and launches its accept task.
C19_ShutdownOncePerServer ==
    /\ [](TotalShutdowns <= 1)
    /\ [](\A s \in Starts : s > 1 => servers[s].shutdownCalls = 0)
    /\ [](\A s \in Starts :
            (onceDone /\ startPc[s] \in {"wait", "stopping", "returned"})
                => srv >= s /\ servers[s].created /\ acceptPc[s] # "none")
    /\ [][onceDone =>
            /\ onceDone'
            /\ \A h \in Starts :
                  servers'[h].shutdownCalls = servers[h].shutdownCalls]_vars

\* the second Start has returned after its cancellation and a further Stop has
\* returned, and the second handle is still listening with its accept task
\* serving: Shutdown was requested on the first handle only
C19_Witness ==
    /\ onceDone
    /\ servers[1].shutdownCalls = 1
    /\ startPc[2] = "returned"
    /\ cancelled[2]
    /\ stopPc[<<"start", 2>>] = "ret"
    /\ stopPc[<<"ext", 2>>] = "ret"
    /\ acceptPc[2] = "serving"
    /\ servers[2].listening
    /\ servers[2].shutdownCalls = 0

====
